---- MODULE Spec2Model ----
(***************************************************************************)
(* Model of convert_to_d3.py: the conversion of a knowledge-graph document *)
(* (entities + relations in a result envelope) into a D3.js node/link      *)
(* graph.                                                                  *)
(*                                                                         *)
(* Python values are modelled as follows.                                  *)
(*   str       file names, paths and entity-type labels are sequences of   *)
(*             characters (one-character strings, resp. code points for    *)
(*             the labels, which sorted() compares); ids, relation types   *)
(*             and messages, which the code only compares for equality,    *)
(*             are TLA+ strings.                                           *)
(*   dict      a JSON object is a function on its keys (a record); the     *)
(*             tally built by extract_relation_types is an insertion-      *)
(*             ordered sequence of <<key, count>> pairs.                   *)
(*   list      a sequence.                                                 *)
(*   set       a set; list(set) is any enumeration of it.                  *)
(*   unbound / None   the empty tuple None; a bound value x is Some(x).    *)
(***************************************************************************)
EXTENDS Integers, Sequences, FiniteSets, TLC

\* ------------------------------------------------------------------ bounds
MaxEntities == 2
MaxRelations == 2
MaxGroupEntities == 3

\* ----------------------------------------------------------- basic values
None == <<>>
Some(x) == <<x>>

Range(s) == {s[i] : i \in 1..Len(s)}

SeqsUpTo(S, n) == UNION {[1..k -> S] : k \in 0..n}

\* every enumeration without repetition of the finite set S
Orderings(S) == {s \in [1..Cardinality(S) -> S] : Range(s) = S}

\* dict.get(key, default)
Get(d, key, default) == IF key \in DOMAIN d THEN d[key] ELSE default

\* str < str on code-point sequences, as sorted() compares them
RECURSIVE StrLess(_, _)
StrLess(a, b) ==
    IF a = <<>> THEN b # <<>>
    ELSE IF b = <<>> THEN FALSE
    ELSE IF a[1] # b[1] THEN a[1] < b[1]
    ELSE StrLess(Tail(a), Tail(b))

\* str.startswith(prefix)
StartsWith(s, prefix) ==
    /\ Len(prefix) <= Len(s)
    /\ SubSeq(s, 1, Len(prefix)) = prefix

\* the entity-type labels "Person", "Place", "Unknown", "city" as code points
Person == <<80, 101, 114, 115, 111, 110>>
Place == <<80, 108, 97, 99, 101>>
Unknown == <<85, 110, 107, 110, 111, 119, 110>>
City == <<99, 105, 116, 121>>

\* --------------------------------------------------- simple_secure_filename
Alnum == {"a", "b", "d", "j", "k", "m", "n", "o", "p", "s", "t", "u"}
SafeChars == Alnum \cup {"_", ".", "-"}
DefaultName == <<"o", "u", "t", "p", "u", "t", ".", "j", "s", "o", "n">>

RECURSIVE RemoveSlashes(_)
RemoveSlashes(filename) ==
    IF filename = <<>> THEN <<>>
    ELSE IF Head(filename) \in {"\\", "/"} THEN RemoveSlashes(Tail(filename))
    ELSE <<Head(filename)>> \o RemoveSlashes(Tail(filename))

ReplaceUnsafe(filename) ==
    [i \in 1..Len(filename) |->
        IF filename[i] \in SafeChars THEN filename[i] ELSE "_"]

simple_secure_filename(filename) ==
    LET cleaned == ReplaceUnsafe(RemoveSlashes(filename))
    IN  IF cleaned = <<>> THEN DefaultName ELSE cleaned

\* ------------------------------------------------------------------ pathlib
allowed_dir == <<"/", "a">>

\* Path(p).name: the last component ("" for the path "." or "")
RECURSIVE LastComponent(_)
LastComponent(p) ==
    IF p = <<>> THEN <<>>
    ELSE IF \E i \in 1..Len(p) : p[i] = "/"
         THEN LastComponent(Tail(p))
         ELSE p

PathName(p) ==
    LET last == LastComponent(p)
    IN  IF last = <<".">> THEN <<>> ELSE last

RECURSIVE Parent(_)
Parent(p) ==
    IF p = <<>> THEN <<"/">>
    ELSE IF p[Len(p)] = "/"
         THEN (IF Len(p) = 1 THEN p ELSE SubSeq(p, 1, Len(p) - 1))
         ELSE Parent(SubSeq(p, 1, Len(p) - 1))

\* (dir / name).resolve(), no symbolic links
Resolve(dir, name) ==
    IF name = <<".", ".">> THEN Parent(dir)
    ELSE IF name = <<>> THEN dir
    ELSE dir \o <<"/">> \o name

\* --------------------------------------------------------------- sorted()
RECURSIVE sorted(_)
sorted(S) ==
    IF S = {} THEN <<>>
    ELSE LET least == CHOOSE x \in S : \A y \in S \ {x} : StrLess(x, y)
         IN  <<least>> \o sorted(S \ {least})

\* list.index(x): 0-based position of the first occurrence
ListIndex(list, x) ==
    (CHOOSE i \in 1..Len(list) :
        list[i] = x /\ \A j \in 1..(i - 1) : list[j] # x) - 1

\* --------------------------------------------------------- extract_groups
\* variant: a record without entityType adds no label
RECURSIVE GroupsLoopNoDefault(_, _)
GroupsLoopNoDefault(entities, acc) ==
    IF entities = <<>> THEN acc
    ELSE GroupsLoopNoDefault(Tail(entities),
            IF "entityType" \in DOMAIN Head(entities)
            THEN acc \cup {Head(entities)["entityType"]}
            ELSE acc)

RECURSIVE GroupsLoop(_, _)
GroupsLoop(entities, acc) ==
    IF entities = <<>> THEN acc
    ELSE GroupsLoop(Tail(entities),
                    acc \cup {Get(Head(entities), "entityType", Unknown)})

\* variant: the labels in order of first occurrence, not sorted
RECURSIVE FirstSeen(_, _)
FirstSeen(entities, acc) ==
    IF entities = <<>> THEN acc
    ELSE LET group == Get(Head(entities), "entityType", Unknown)
         IN  FirstSeen(Tail(entities),
                       IF group \in Range(acc) THEN acc ELSE Append(acc, group))

extract_groups_unsorted(entities) == FirstSeen(entities, <<>>)

extract_groups(entities) == sorted(GroupsLoop(entities, {}))

_get_group_index(entity_type, existing_groups) ==
    IF entity_type \in Range(existing_groups)
    THEN ListIndex(existing_groups, entity_type)
    ELSE 0

\* ------------------------------------------------- extract_relation_types
DictHas(dict, key) == \E i \in 1..Len(dict) : dict[i][1] = key

DictGet(dict, key, default) ==
    IF DictHas(dict, key)
    THEN dict[CHOOSE i \in 1..Len(dict) : dict[i][1] = key][2]
    ELSE default

\* dict.update({key: value}): an existing key keeps its position
DictUpdate(dict, key, value) ==
    IF DictHas(dict, key)
    THEN [i \in 1..Len(dict) |->
            IF dict[i][1] = key THEN <<key, value>> ELSE dict[i]]
    ELSE Append(dict, <<key, value>>)

\* variant: only the records that become links are counted
RECURSIVE TallyLoopRelationsOnly(_, _)
TallyLoopRelationsOnly(relations, relation_types) ==
    IF relations = <<>> THEN relation_types
    ELSE LET rel_type == Get(Head(relations), "relationType", "Unknown")
         IN  TallyLoopRelationsOnly(Tail(relations),
                IF Get(Head(relations), "type", "") = "relation"
                THEN DictUpdate(relation_types, rel_type,
                                DictGet(relation_types, rel_type, 0) + 1)
                ELSE relation_types)

RECURSIVE TallyLoop(_, _)
TallyLoop(relations, relation_types) ==
    IF relations = <<>> THEN relation_types
    ELSE LET rel_type == Get(Head(relations), "relationType", "Unknown")
         IN  TallyLoop(Tail(relations),
                       DictUpdate(relation_types, rel_type,
                                  DictGet(relation_types, rel_type, 0) + 1))

extract_relation_types(relations) == TallyLoop(relations, <<>>)

_get_relation_strength(relation_type, relation_types) ==
    DictGet(relation_types, relation_type, 0)

\* -------------------------------------------------------------- exceptions
Exc(type, msg) == [type |-> type, msg |-> msg]

\* the value a call returns, or the exception it raises; what it printed
Return(value, printed) == [value |-> Some(value), exc |-> None, printed |-> printed]
Raise(exc, printed) == [value |-> None, exc |-> Some(exc), printed |-> printed]

Line(msg, arg) == [msg |-> msg, arg |-> arg]

\* ---------------------------------------------------------- extract_nodes
RECURSIVE NodesLoop(_, _, _)
NodesLoop(entities, existing_groups, nodes) ==
    IF entities = <<>> THEN Return(nodes, <<>>)
    ELSE LET entity == Head(entities)
         IN  IF Get(entity, "type", "") # "entity"
             THEN NodesLoop(Tail(entities), existing_groups, nodes)
             ELSE IF "name" \notin DOMAIN entity
             THEN Raise(Exc("KeyError", "name"), <<>>)
             ELSE NodesLoop(Tail(entities), existing_groups,
                    Append(nodes,
                        [id |-> entity["name"],
                         type |-> Get(entity, "entityType", Unknown),
                         observations |-> Get(entity, "observations", <<>>),
                         group |-> _get_group_index(
                                      Get(entity, "entityType", Unknown),
                                      existing_groups)]))

\* variant: each node is inserted at the front of the list
Reverse(seq) == [i \in 1..Len(seq) |-> seq[Len(seq) + 1 - i]]

extract_nodes_reversed(entities, existing_groups) ==
    LET r == NodesLoop(entities, existing_groups, <<>>)
    IN  IF r.exc # None THEN r ELSE Return(Reverse(r.value[1]), <<>>)

extract_nodes(entities, existing_groups) ==
    NodesLoop(entities, existing_groups, <<>>)

\* ---------------------------------------------------------- extract_links
RECURSIVE LinksLoop(_, _, _)
LinksLoop(relations, relation_types, links) ==
    IF relations = <<>> THEN Return(links, <<>>)
    ELSE LET relation == Head(relations)
         IN  IF Get(relation, "type", "") # "relation"
             THEN LinksLoop(Tail(relations), relation_types, links)
             ELSE IF "from" \notin DOMAIN relation
             THEN Raise(Exc("KeyError", "from"), <<>>)
             ELSE IF "to" \notin DOMAIN relation
             THEN Raise(Exc("KeyError", "to"), <<>>)
             ELSE IF "relationType" \notin DOMAIN relation
             THEN Raise(Exc("KeyError", "relationType"), <<>>)
             ELSE LinksLoop(Tail(relations), relation_types,
                    Append(links,
                        [source |-> relation["from"],
                         target |-> relation["to"],
                         type |-> relation["relationType"],
                         value |-> _get_relation_strength(
                                      relation["relationType"],
                                      relation_types)]))

extract_links(relations, relation_types) ==
    LinksLoop(relations, relation_types, <<>>)

\* --------------------------------------------------- load_knowledge_graph
encodings == <<"utf-8-sig", "utf-8", "utf-16", "cp1252">>

\* the file at path p of the file system, None when there is none
FileAt(files, p) == IF p \in DOMAIN files THEN files[p] ELSE None

\* A file is its bytes, described by the encodings under which they decode
\* to a JSON text (valid_in) and the value that text parses to (data).
RECURSIVE EncodingLoop(_, _, _, _)
EncodingLoop(files, file_path, i, printed) ==
    IF i > Len(encodings)
    THEN Raise(Exc("ValueError", "Unable to decode file with any supported encoding"),
               printed)
    ELSE LET safe_filename == simple_secure_filename(PathName(file_path))
             safe_path == Resolve(allowed_dir, safe_filename)
         IN  IF ~StartsWith(safe_path, allowed_dir)
             THEN Raise(Exc("ValueError", "Path traversal detected"), printed)
             ELSE IF FileAt(files, safe_path) = None
             THEN Raise(Exc("FileNotFoundError", "No such file or directory"),
                        printed)
             ELSE IF encodings[i] \in FileAt(files, safe_path)[1].valid_in
             THEN Return(FileAt(files, safe_path)[1].data, printed)
             ELSE EncodingLoop(files, file_path, i + 1,
                    Append(printed, Line("decode error", encodings[i])))

load_knowledge_graph(files, json_file_path) ==
    IF ~StartsWith(json_file_path, allowed_dir)
    THEN Raise(Exc("ValueError",
                   "Access to file outside allowed directory is not permitted"),
               <<>>)
    ELSE IF FileAt(files, json_file_path) = None
    THEN Raise(Exc("FileNotFoundError", "Knowledge graph file not found"), <<>>)
    ELSE EncodingLoop(files, json_file_path, 1, <<>>)

\* json.loads(data["result"]["content"][0]["text"])
Unwrap(data) ==
    IF "result" \notin DOMAIN data
    THEN Raise(Exc("KeyError", "result"), <<>>)
    ELSE IF "content" \notin DOMAIN data["result"]
    THEN Raise(Exc("KeyError", "content"), <<>>)
    ELSE IF Len(data["result"]["content"]) = 0
    THEN Raise(Exc("IndexError", "list index out of range"), <<>>)
    ELSE IF "text" \notin DOMAIN data["result"]["content"][1]
    THEN Raise(Exc("KeyError", "text"), <<>>)
    ELSE IF "json" \notin DOMAIN data["result"]["content"][1]["text"]
    THEN Raise(Exc("JSONDecodeError", "Expecting value"), <<>>)
    ELSE Return(data["result"]["content"][1]["text"]["json"], <<>>)

\* ------------------------------------------------------------- the inputs
\* a key that may be absent: no binding, or key bound to a value of S
Opt(key, S) == {<<>>} \cup {key :> v : v \in S}

\* entity records varying in type label and observations
EntityTypeRecs ==
    {("type" :> t) @@ ("name" :> "A") @@ e @@ o :
        t \in {"entity", "note"},
        e \in Opt("entityType", {Person, Place}),
        o \in Opt("observations", {<<"seen">>})}

\* entity records varying in name
EntityIdRecs ==
    {("type" :> t) @@ n @@ ("entityType" :> Person) :
        t \in {"entity", "relation"}, n \in Opt("name", {"A", "B"})}

EntitySeqs ==
    SeqsUpTo(EntityTypeRecs, MaxEntities) \cup SeqsUpTo(EntityIdRecs, MaxEntities)

EntityA == [type |-> "entity", name |-> "A", entityType |-> Person]
EntityB == [type |-> "entity", name |-> "B"]
FewEntitySeqs == {<<>>, <<EntityA>>, <<EntityB, EntityA>>}

\* relation records varying in their endpoints
RelationEndRecs ==
    {("type" :> t) @@ f @@ g @@ ("relationType" :> "knows") :
        t \in {"relation", "note"},
        f \in Opt("from", {"A", "B"}),
        g \in Opt("to", {"A"})}

\* relation records varying in their relation type
RelationTypeRecs ==
    {("type" :> t) @@ ("from" :> "A") @@ ("to" :> "A") @@ r :
        t \in {"relation", "entity"},
        r \in Opt("relationType", {"knows", "Unknown"})}

RelationSeqs ==
    SeqsUpTo(RelationEndRecs, MaxRelations) \cup SeqsUpTo(RelationTypeRecs, MaxRelations)

RelationAA == [type |-> "relation", from |-> "A", to |-> "A", relationType |-> "knows"]
RelationAB == [type |-> "relation", from |-> "A", to |-> "B", relationType |-> "visited"]
FewRelationSeqs == {<<>>, <<RelationAA>>, <<RelationAB, RelationAA>>}

\* decoded contents with both keys, with one of them, with neither
FullContents ==
    {[entities |-> E, relations |-> R] : E \in EntitySeqs, R \in FewRelationSeqs}
    \cup {[entities |-> E, relations |-> R] : E \in FewEntitySeqs, R \in RelationSeqs}

PartialContents ==
    {[entities |-> E] : E \in EntitySeqs}
    \cup {[relations |-> R] : R \in RelationSeqs}
    \cup {[graph |-> "g"]}

SmallContent == [entities |-> <<EntityB, EntityA>>, relations |-> <<RelationAB>>]

\* the result envelope around a decoded content
Envelope(c) == [result |-> [content |-> <<[text |-> [json |-> c]]>>]]

BadEnvelopes ==
    {[error |-> "e"],
     [result |-> [isError |-> "e"]],
     [result |-> [content |-> <<>>]],
     [result |-> [content |-> <<[type |-> "text"]>>]],
     [result |-> [content |-> <<[text |-> [raw |-> "not json"]]>>]]}

\* files: ASCII/UTF-8 JSON text, UTF-16 with BOM, cp1252 bytes, no JSON at all
Utf8File(d) == [valid_in |-> {"utf-8-sig", "utf-8"}, data |-> d]
Utf16File(d) == [valid_in |-> {"utf-16"}, data |-> d]
Cp1252File(d) == [valid_in |-> {"cp1252"}, data |-> d]
GarbageFile(d) == [valid_in |-> {}, data |-> d]

\* paths: /a is the directory of the script
PathK == <<"/", "a", "/", "k">>
PathSubK == <<"/", "a", "/", "s", "/", "k">>
PathSiblingK == <<"/", "a", "b", "/", "k">>
PathTmpK == <<"/", "t", "/", "k">>
PathMissing == <<"/", "a", "/", "m">>
PathD == <<"/", "a", "/", "d">>

\* a document written by an earlier conversion
OldGraph ==
    [nodes |-> <<>>, links |-> <<>>,
     metadata |-> [nodeCount |-> 0, linkCount |-> 0,
                   entityTypes |-> <<>>, relationTypes |-> <<>>,
                   generatedAt |-> "2025-01-14", source |-> <<"o", "l", "d">>]]

\* the file system before the run: the file at /a/k varies
InitialFiles(file) ==
    (PathK :> file)
    @@ (PathSubK :> Some(Utf8File(Envelope(SmallContent))))
    @@ (PathSiblingK :> Some(Utf8File(Envelope(SmallContent))))
    @@ (PathTmpK :> Some(Utf8File(Envelope(SmallContent))))
    @@ (PathD :> Some(Utf8File(OldGraph)))

Scenario(i, o, v, f) ==
    [input_file |-> i, output_file |-> o, validate |-> v, files |-> InitialFiles(f)]

OutputFiles == {<<"d">>, <<>>, <<".", ".">>, <<"s", "/", "d">>, <<"d", " ", "\\">>}

Scenarios ==
    \* every content, read from /a/k and written to /a/d
    {Scenario(PathK, <<"d">>, v, Some(Utf8File(Envelope(c)))) :
        v \in BOOLEAN, c \in FullContents \cup PartialContents}
    \* every envelope
    \cup {Scenario(PathK, <<"d">>, v, Some(Utf8File(d))) :
        v \in BOOLEAN, d \in BadEnvelopes}
    \* every input path and encoding
    \cup {Scenario(i, <<"d">>, TRUE, f) :
        i \in {PathK, PathSubK, PathSiblingK, PathTmpK, PathMissing},
        f \in {None,
               Some(Utf16File(Envelope(SmallContent))),
               Some(Cp1252File(Envelope(SmallContent))),
               Some(GarbageFile(Envelope(SmallContent)))}}
    \* every output path
    \cup {Scenario(PathK, o, v, Some(Utf8File(Envelope(c)))) :
        o \in OutputFiles, v \in BOOLEAN,
        c \in {SmallContent, [entities |-> <<>>, relations |-> <<>>]}}

\* --------------------------------------------------------------- the state
VARIABLES
    input_file, output_file, validate,  \* the arguments of convert_to_d3
    files,                              \* the file system: path -> file or None
    pc,                                 \* the position in convert_to_d3
    data, content,                      \* locals of convert_to_d3 ...
    groups, relation_types, nodes, links, d3_graph,
    link_i, missing_nodes, valid,       \* validate_graph_integrity: loop index,
                                        \* local, return value
    stdout,                             \* the lines printed
    error, failed_at,                   \* the exception caught, where raised
    exit_code,                          \* the exit status of the process
    run, first                          \* repeated runs: number, first outcome

args == <<input_file, output_file, validate>>
locals == <<data, content, groups, relation_types, nodes, links, d3_graph>>
validator == <<link_i, missing_nodes, valid>>
outcome == <<error, failed_at, exit_code>>
repeat == <<run, first>>
vars == <<args, files, pc, locals, validator, stdout, outcome, repeat>>

Start ==
    /\ pc = "load"
    /\ data = None /\ content = None /\ groups = None
    /\ relation_types = None /\ nodes = None /\ links = None
    /\ d3_graph = None
    /\ link_i = 0 /\ missing_nodes = {} /\ valid = None
    /\ stdout = <<>>
    /\ error = None /\ failed_at = "" /\ exit_code = None

Init ==
    /\ \E s \in Scenarios :
        /\ input_file = s.input_file
        /\ output_file = s.output_file
        /\ validate = s.validate
        /\ files = s.files
    /\ Start
    /\ run = 1 /\ first = None

\* the path the document is written to
OutputPath(o) == Resolve(allowed_dir, simple_secure_filename(PathName(o)))

\* json.dump(d3_graph, file): the text read back parses to the same value
WriteFile(fs, path, document) == (path :> Some(Utf8File(document))) @@ fs

\* variant: the handler prints and returns, without sys.exit(1)
FailWithoutExit(exc, printed) ==
    /\ error' = Some(exc)
    /\ failed_at' = pc
    /\ stdout' = stdout \o printed
                    \o <<Line("Error converting knowledge graph", exc.msg)>>
    /\ exit_code' = Some(0)
    /\ pc' = "returned"

\* except Exception as e: print, sys.exit(1)
Fail(exc, printed) ==
    /\ error' = Some(exc)
    /\ failed_at' = pc
    /\ stdout' = stdout \o printed
                    \o <<Line("Error converting knowledge graph", exc.msg)>>
    /\ exit_code' = Some(1)
    /\ pc' = "exited"

\* data = load_knowledge_graph(input_file)
Load ==
    /\ pc = "load"
    /\ LET r == load_knowledge_graph(files, input_file)
       IN  IF r.exc # None
           THEN /\ Fail(r.exc[1], r.printed)
                /\ UNCHANGED data
           ELSE /\ data' = r.value
                /\ stdout' = stdout \o r.printed
                /\ pc' = "structure"
                /\ UNCHANGED outcome
    /\ UNCHANGED <<args, files, content, groups, relation_types, nodes, links,
                   d3_graph, validator, repeat>>

\* variant: only the entities key is required
StructureEntitiesOnly ==
    /\ pc = "structure"
    /\ LET r == Unwrap(data[1])
       IN  IF r.exc # None
           THEN /\ error' = Some(r.exc[1])
                /\ failed_at' = pc
                /\ stdout' = Append(stdout,
                        Line("Error converting knowledge graph", r.exc[1].msg))
                /\ exit_code' = Some(1)
                /\ pc' = "exited"
                /\ UNCHANGED content
           ELSE IF "entities" \notin DOMAIN r.value[1]
           THEN /\ error' = Some(Exc("ValueError",
                            "Knowledge graph must contain 'entities' array"))
                /\ failed_at' = pc
                /\ stdout' = Append(stdout,
                        Line("Error converting knowledge graph",
                             "Knowledge graph must contain 'entities' array"))
                /\ exit_code' = Some(1)
                /\ pc' = "exited"
                /\ content' = r.value
           ELSE /\ content' = r.value
                /\ pc' = "groups"
                /\ UNCHANGED <<stdout, outcome>>
    /\ UNCHANGED <<args, files, data, groups, relation_types, nodes, links,
                   d3_graph, validator, repeat>>

\* content = json.loads(...); the two required keys
Structure ==
    /\ pc = "structure"
    /\ LET r == Unwrap(data[1])
       IN  IF r.exc # None
           THEN /\ Fail(r.exc[1], <<>>)
                /\ UNCHANGED content
           ELSE IF "entities" \notin DOMAIN r.value[1]
           THEN /\ Fail(Exc("ValueError",
                            "Knowledge graph must contain 'entities' array"), <<>>)
                /\ content' = r.value
           ELSE IF "relations" \notin DOMAIN r.value[1]
           THEN /\ Fail(Exc("ValueError",
                            "Knowledge graph must contain 'relations' array"), <<>>)
                /\ content' = r.value
           ELSE /\ content' = r.value
                /\ pc' = "groups"
                /\ UNCHANGED <<stdout, outcome>>
    /\ UNCHANGED <<args, files, data, groups, relation_types, nodes, links,
                   d3_graph, validator, repeat>>

\* groups = extract_groups(content["entities"])
ExtractGroups ==
    /\ pc = "groups"
    /\ groups' = Some(extract_groups(content[1]["entities"]))
    /\ pc' = "tally"
    /\ UNCHANGED <<args, files, data, content, relation_types, nodes, links,
                   d3_graph, validator, stdout, outcome, repeat>>

\* relation_types = extract_relation_types(content["relations"])
ExtractRelationTypes ==
    /\ pc = "tally"
    /\ relation_types' = Some(extract_relation_types(content[1]["relations"]))
    /\ pc' = "nodes"
    /\ UNCHANGED <<args, files, data, content, groups, nodes, links,
                   d3_graph, validator, stdout, outcome, repeat>>

\* nodes = extract_nodes(content["entities"], groups)
ExtractNodes ==
    /\ pc = "nodes"
    /\ LET r == extract_nodes(content[1]["entities"], groups[1])
       IN  IF r.exc # None
           THEN /\ Fail(r.exc[1], <<>>)
                /\ UNCHANGED nodes
           ELSE /\ nodes' = r.value
                /\ pc' = "links"
                /\ UNCHANGED <<stdout, outcome>>
    /\ UNCHANGED <<args, files, data, content, groups, relation_types, links,
                   d3_graph, validator, repeat>>

\* links = extract_links(content["relations"], relation_types)
ExtractLinks ==
    /\ pc = "links"
    /\ LET r == extract_links(content[1]["relations"], relation_types[1])
       IN  IF r.exc # None
           THEN /\ Fail(r.exc[1], <<>>)
                /\ UNCHANGED links
           ELSE /\ links' = r.value
                /\ pc' = "cleanup"
                /\ UNCHANGED <<stdout, outcome>>
    /\ UNCHANGED <<args, files, data, content, groups, relation_types, nodes,
                   d3_graph, validator, repeat>>

\* variant: the validate flag is ignored and validation never runs
CleanUpSkipsValidation ==
    /\ pc = "cleanup"
    /\ content' = None
    /\ data' = None
    /\ pc' = "assemble"
    /\ UNCHANGED <<link_i, missing_nodes>>
    /\ UNCHANGED <<args, files, groups, relation_types, nodes, links, d3_graph,
                   valid, stdout, outcome, repeat>>

\* del content, del data; if validate: enter validate_graph_integrity
CleanUp ==
    /\ pc = "cleanup"
    /\ content' = None
    /\ data' = None
    /\ IF validate
       THEN /\ pc' = "validate"
            /\ link_i' = 1
            /\ missing_nodes' = {}
       ELSE /\ pc' = "assemble"
            /\ UNCHANGED <<link_i, missing_nodes>>
    /\ UNCHANGED <<args, files, groups, relation_types, nodes, links, d3_graph,
                   valid, stdout, outcome, repeat>>

\* variant: the loop is left at the first link with a missing endpoint
ValidateLinkStopsAtFirst ==
    /\ pc = "validate"
    /\ link_i <= Len(links[1])
    /\ LET node_ids == {nodes[1][n].id : n \in 1..Len(nodes[1])}
           link == links[1][link_i]
           no_source == link.source \notin node_ids
           no_target == link.target \notin node_ids
       IN  /\ stdout' = stdout
                \o (IF no_source
                    THEN <<Line("Warning: Link source not found in nodes", link.source)>>
                    ELSE <<>>)
                \o (IF no_target
                    THEN <<Line("Warning: Link target not found in nodes", link.target)>>
                    ELSE <<>>)
           /\ missing_nodes' = missing_nodes
                \cup (IF no_source THEN {link.source} ELSE {})
                \cup (IF no_target THEN {link.target} ELSE {})
           /\ link_i' = IF no_source \/ no_target
                        THEN Len(links[1]) + 1
                        ELSE link_i + 1
    /\ UNCHANGED <<args, files, pc, locals, valid, outcome, repeat>>

\* validate_graph_integrity: one iteration of "for link in links"
ValidateLink ==
    /\ pc = "validate"
    /\ link_i <= Len(links[1])
    /\ LET node_ids == {nodes[1][n].id : n \in 1..Len(nodes[1])}
           link == links[1][link_i]
           no_source == link.source \notin node_ids
           no_target == link.target \notin node_ids
       IN  /\ stdout' = stdout
                \o (IF no_source
                    THEN <<Line("Warning: Link source not found in nodes", link.source)>>
                    ELSE <<>>)
                \o (IF no_target
                    THEN <<Line("Warning: Link target not found in nodes", link.target)>>
                    ELSE <<>>)
           /\ missing_nodes' = missing_nodes
                \cup (IF no_source THEN {link.source} ELSE {})
                \cup (IF no_target THEN {link.target} ELSE {})
    /\ link_i' = link_i + 1
    /\ UNCHANGED <<args, files, pc, locals, valid, outcome, repeat>>

\* variant: the output file is written before the result is looked at
ValidateReturnAfterWrite ==
    /\ pc = "validate"
    /\ link_i > Len(links[1])
    /\ files' = WriteFile(files, OutputPath(output_file),
                          [nodes |-> nodes[1], links |-> links[1]])
    /\ IF missing_nodes # {}
       THEN /\ valid' = Some(FALSE)
            /\ Fail(Exc("ValueError", "Graph integrity validation failed"),
                    <<Line("Found missing nodes", ""),
                      Line("Consider adding these as entities or use --no-validate", "")>>)
       ELSE /\ valid' = Some(TRUE)
            /\ pc' = "assemble"
            /\ UNCHANGED <<stdout, outcome>>
    /\ UNCHANGED <<args, locals, link_i, missing_nodes, repeat>>

\* validate_graph_integrity after the loop, and the raise of convert_to_d3
ValidateReturn ==
    /\ pc = "validate"
    /\ link_i > Len(links[1])
    /\ IF missing_nodes # {}
       THEN /\ valid' = Some(FALSE)
            /\ Fail(Exc("ValueError", "Graph integrity validation failed"),
                    <<Line("Found missing nodes", ""),
                      Line("Consider adding these as entities or use --no-validate", "")>>)
       ELSE /\ valid' = Some(TRUE)
            /\ pc' = "assemble"
            /\ UNCHANGED <<stdout, outcome>>
    /\ UNCHANGED <<args, files, locals, link_i, missing_nodes, repeat>>

\* d3_graph = {...}: list(set(...)) enumerates the set in any order
Assemble ==
    /\ pc = "assemble"
    /\ \E entityTypes \in Orderings({nodes[1][n].type : n \in 1..Len(nodes[1])}),
          relationTypes \in Orderings({links[1][l].type : l \in 1..Len(links[1])}) :
            d3_graph' = Some(
                [nodes |-> nodes[1],
                 links |-> links[1],
                 metadata |-> [nodeCount |-> Len(nodes[1]),
                               linkCount |-> Len(links[1]),
                               entityTypes |-> entityTypes,
                               relationTypes |-> relationTypes,
                               generatedAt |-> "2025-01-14",
                               source |-> input_file]])
    /\ pc' = "store"
    /\ UNCHANGED <<args, files, data, content, groups, relation_types, nodes,
                   links, validator, stdout, outcome, repeat>>

\* the output path check, open(output_path, "w"), json.dump, return
Store ==
    /\ pc = "store"
    /\ IF ~StartsWith(OutputPath(output_file), allowed_dir)
       THEN /\ Fail(Exc("ValueError", "Output file path traversal detected."), <<>>)
            /\ UNCHANGED files
       ELSE /\ files' = WriteFile(files, OutputPath(output_file), d3_graph[1])
            /\ stdout' = Append(stdout,
                    Line("Successfully converted knowledge graph to D3.js format", ""))
            /\ exit_code' = Some(0)
            /\ pc' = "returned"
            /\ UNCHANGED <<error, failed_at>>
    /\ UNCHANGED <<args, locals, validator, repeat>>

Terminated == pc \in {"returned", "exited"}

Next ==
    \/ Load
    \/ Structure
    \/ ExtractGroups
    \/ ExtractRelationTypes
    \/ ExtractNodes
    \/ ExtractLinks
    \/ CleanUp
    \/ ValidateLink
    \/ ValidateReturn
    \/ Assemble
    \/ Store

Spec == Init /\ [][Next]_vars

\* ------------------------------------------------ the conversion run twice
\* a second run of the command on the files the first run left
Rerun ==
    /\ Terminated
    /\ run = 1
    /\ run' = 2
    /\ first' = Some([exit_code |-> exit_code,
                      output |-> FileAt(files, OutputPath(output_file))])
    /\ pc' = "load"
    /\ data' = None /\ content' = None /\ groups' = None
    /\ relation_types' = None /\ nodes' = None /\ links' = None
    /\ d3_graph' = None
    /\ link_i' = 0 /\ missing_nodes' = {} /\ valid' = None
    /\ stdout' = <<>>
    /\ error' = None /\ failed_at' = "" /\ exit_code' = None
    /\ UNCHANGED <<args, files>>

NextRepeat == Next \/ Rerun

SpecRepeat == Init /\ [][NextRepeat]_vars

\* ------------------------------------- extract_groups as a pure function
GroupRecs ==
    {("type" :> t) @@ ("name" :> "A") @@ e :
        t \in {"entity", "note"},
        e \in Opt("entityType", {Person, Place, City, Unknown})}

InitGroups ==
    /\ input_file = PathK /\ output_file = <<"d">> /\ validate = TRUE
    /\ files = InitialFiles(None)
    /\ \E E \in SeqsUpTo(GroupRecs, MaxGroupEntities) :
          content = Some([entities |-> E, relations |-> <<>>])
    /\ pc = "groups"
    /\ data = None /\ groups = None
    /\ relation_types = None /\ nodes = None /\ links = None
    /\ d3_graph = None
    /\ link_i = 0 /\ missing_nodes = {} /\ valid = None
    /\ stdout = <<>>
    /\ error = None /\ failed_at = "" /\ exit_code = None
    /\ run = 1 /\ first = None

Swap(seq, i, j) ==
    [k \in 1..Len(seq) |-> IF k = i THEN seq[j] ELSE IF k = j THEN seq[i] ELSE seq[k]]

\* the same records in another order, for a second call
Permute ==
    /\ pc = "tally"
    /\ run = 1
    /\ \E i, j \in 1..Len(content[1]["entities"]) :
          /\ i < j
          /\ content' = Some([entities |-> Swap(content[1]["entities"], i, j),
                              relations |-> content[1]["relations"]])
    /\ first' = groups
    /\ groups' = None
    /\ run' = 2
    /\ pc' = "groups"
    /\ UNCHANGED <<args, files, data, relation_types, nodes, links, d3_graph,
                   validator, stdout, outcome>>

NextGroups == ExtractGroups \/ Permute

SpecGroups == InitGroups /\ [][NextGroups]_vars

\* ------------------------------------------------------------ the claims
\* The input of the run, read off the arguments and the file system.
SafeInputPath == Resolve(allowed_dir, simple_secure_filename(PathName(input_file)))

InputReadable ==
    /\ StartsWith(input_file, allowed_dir)
    /\ FileAt(files, input_file) # None
    /\ FileAt(files, SafeInputPath) # None
    /\ FileAt(files, SafeInputPath)[1].valid_in # {}

InputData == FileAt(files, SafeInputPath)[1].data

HasEnvelope ==
    /\ InputReadable
    /\ "result" \in DOMAIN InputData
    /\ "content" \in DOMAIN InputData["result"]
    /\ Len(InputData["result"]["content"]) > 0
    /\ "text" \in DOMAIN InputData["result"]["content"][1]
    /\ "json" \in DOMAIN InputData["result"]["content"][1]["text"]

InputContent == InputData["result"]["content"][1]["text"]["json"]

BothKeys ==
    /\ "entities" \in DOMAIN InputContent
    /\ "relations" \in DOMAIN InputContent

IsEntity(r) == "type" \in DOMAIN r /\ r["type"] = "entity"
IsRelation(r) == "type" \in DOMAIN r /\ r["type"] = "relation"
LinkKeys == {"from", "to", "relationType"}

\* every record carries its required keys
AllKeys(c) ==
    /\ \A i \in 1..Len(c["entities"]) : "name" \in DOMAIN c["entities"][i]
    /\ \A j \in 1..Len(c["relations"]) : LinkKeys \subseteq DOMAIN c["relations"][j]

\* some record that is extracted lacks a required key
BadRecord(c) ==
    \/ \E i \in 1..Len(c["entities"]) :
          IsEntity(c["entities"][i]) /\ "name" \notin DOMAIN c["entities"][i]
    \/ \E j \in 1..Len(c["relations"]) :
          IsRelation(c["relations"][j]) /\ ~(LinkKeys \subseteq DOMAIN c["relations"][j])

EntityNames(c) ==
    {c["entities"][i]["name"] :
        i \in {k \in 1..Len(c["entities"]) : IsEntity(c["entities"][k])}}

\* the relation records with an endpoint that names no entity
DanglingRecords(c) ==
    {j \in 1..Len(c["relations"]) :
        /\ IsRelation(c["relations"][j])
        /\ \/ c["relations"][j]["from"] \notin EntityNames(c)
           \/ c["relations"][j]["to"] \notin EntityNames(c)}

OutputPermitted == StartsWith(OutputPath(output_file), allowed_dir)

\* this run wrote its document to the output path
Produced ==
    /\ d3_graph # None
    /\ FileAt(files, OutputPath(output_file)) = Some(Utf8File(d3_graph[1]))

IntegrityError == Exc("ValueError", "Graph integrity validation failed")

StructureErrors ==
    {Exc("ValueError", "Knowledge graph must contain 'entities' array"),
     Exc("ValueError", "Knowledge graph must contain 'relations' array")}

\* the graph was assembled and, the output path being permitted, written
Succeeded ==
    /\ d3_graph # None
    /\ IF OutputPermitted
       THEN pc = "returned" /\ exit_code = Some(0) /\ Produced
       ELSE failed_at = "store"

HasLinkOf(ls, r) ==
    \E l \in 1..Len(ls) :
        /\ ls[l].source = r["from"]
        /\ ls[l].target = r["to"]
        /\ ls[l].type = r["relationType"]

\* C1: for a document whose records all carry their required keys, a relation
\* record with an endpoint that names no entity makes the run fail with the
\* graph-integrity error when validation is enabled and succeed with that link
\* in the output links when it is disabled; without such a record the run
\* succeeds under both settings.
C1_DanglingReference ==
    (Terminated /\ HasEnvelope /\ BothKeys /\ AllKeys(InputContent)) =>
        IF DanglingRecords(InputContent) # {}
        THEN IF validate
             THEN /\ pc = "exited"
                  /\ exit_code = Some(1)
                  /\ error = Some(IntegrityError)
                  /\ failed_at = "validate"
             ELSE /\ Succeeded
                  /\ \A j \in DanglingRecords(InputContent) :
                        /\ HasLinkOf(d3_graph[1].links, InputContent["relations"][j])
                        /\ Produced =>
                              HasLinkOf(FileAt(files, OutputPath(output_file))[1].data.links,
                                        InputContent["relations"][j])
        ELSE Succeeded

C1_Witness ==
    /\ pc = "returned"
    /\ ~validate
    /\ Produced
    /\ HasEnvelope /\ BothKeys /\ AllKeys(InputContent)
    /\ DanglingRecords(InputContent) # {}

\* the ids the links name that are the id of no node
MissingIds(ns, ls) ==
    ({ls[l].source : l \in 1..Len(ls)} \cup {ls[l].target : l \in 1..Len(ls)})
        \ {ns[n].id : n \in 1..Len(ns)}

Warnings ==
    {"Warning: Link source not found in nodes",
     "Warning: Link target not found in nodes"}

Reported == {stdout[k].arg : k \in {m \in 1..Len(stdout) : stdout[m].msg \in Warnings}}

\* C2: the validator examines every link before it returns: the missing ids
\* it collected and reported are all the sources and targets that are the id
\* of no node, it returns true exactly when there are none, and the
\* graph-integrity error is raised only after it has returned.
C2_ValidatorReportsAll ==
    /\ pc = "validate" =>
          /\ link_i \in 1..(Len(links[1]) + 1)
          /\ missing_nodes = MissingIds(nodes[1], SubSeq(links[1], 1, link_i - 1))
    /\ valid # None =>
          /\ link_i = Len(links[1]) + 1
          /\ missing_nodes = MissingIds(nodes[1], links[1])
          /\ Reported = MissingIds(nodes[1], links[1])
          /\ valid[1] = (MissingIds(nodes[1], links[1]) = {})
    /\ error = Some(IntegrityError) => valid = Some(FALSE)

C2_Witness ==
    /\ pc = "exited"
    /\ error = Some(IntegrityError)
    /\ Len(links[1]) = 2
    /\ MissingIds(nodes[1], <<links[1][1]>>) # {}
    /\ MissingIds(nodes[1], <<links[1][1]>>) # missing_nodes
    /\ Cardinality(Reported) >= 2

NothingExtracted ==
    groups = None /\ relation_types = None /\ nodes = None /\ links = None

\* C3: a decoded content without the entities key or without the relations key
\* makes the run fail with the structure error before the group table, the
\* tally, the nodes or the links are computed, whatever the key that is
\* present holds.
C3_StructureFirst ==
    /\ (Terminated /\ HasEnvelope /\ ~BothKeys) =>
          /\ pc = "exited"
          /\ exit_code = Some(1)
          /\ error # None
          /\ error[1] \in StructureErrors
          /\ failed_at = "structure"
          /\ NothingExtracted
    /\ ~NothingExtracted => (HasEnvelope /\ BothKeys)

C3_Witness ==
    /\ pc = "exited"
    /\ failed_at = "structure"
    /\ NothingExtracted
    /\ HasEnvelope
    /\ "relations" \notin DOMAIN InputContent
    /\ "entities" \in DOMAIN InputContent
    /\ \E i \in 1..Len(InputContent["entities"]) :
          /\ IsEntity(InputContent["entities"][i])
          /\ "name" \notin DOMAIN InputContent["entities"][i]

Labels(entities) ==
    {Get(entities[i], "entityType", Unknown) : i \in 1..Len(entities)}

\* C4: extract_groups returns a sorted, duplicate-free list of exactly the
\* entityType values of its argument ("Unknown" for a record without one),
\* and the same list for every permutation of the argument.
C4_GroupsSortedAndStable ==
    (groups # None /\ content # None) =>
        LET g == groups[1]
            E == content[1]["entities"]
        IN  /\ \A i \in 1..(Len(g) - 1) : StrLess(g[i], g[i + 1])
            /\ Range(g) = Labels(E)
            /\ \A p \in Permutations(1..Len(E)) :
                  extract_groups([i \in 1..Len(E) |-> E[p[i]]]) = g
            /\ first # None => first = groups

C4_Witness ==
    /\ groups # None /\ content # None
    /\ first # None
    /\ run = 2
    /\ Len(groups[1]) = 3
    /\ Unknown \in Range(groups[1])
    /\ \E i \in 1..Len(content[1]["entities"]) :
          "entityType" \notin DOMAIN content[1]["entities"][i]
    /\ Get(content[1]["entities"][1], "entityType", Unknown) # groups[1][1]

\* the node's group is the 0-based position of its type in the table
NodeGroupOk(node, table) ==
    /\ node.type \in Range(table)
    /\ node.group \in 0..(Len(table) - 1)
    /\ \E k \in 1..Len(table) : k = node.group + 1 /\ table[k] = node.type

\* C5: each node's group is the position of the node's type in the group
\* table computed from the same entities array, also for a type defaulted to
\* "Unknown"; no node's type is absent from the table.
C5_GroupIndexesTable ==
    /\ groups # None => Range(groups[1]) = Labels(InputContent["entities"])
    /\ nodes # None =>
          \A n \in 1..Len(nodes[1]) : NodeGroupOk(nodes[1][n], groups[1])
    /\ pc = "returned" =>
          LET written == FileAt(files, OutputPath(output_file))[1].data.nodes
          IN  \A n \in 1..Len(written) : NodeGroupOk(written[n], groups[1])

C5_Witness ==
    /\ pc = "returned"
    /\ LET written == FileAt(files, OutputPath(output_file))[1].data.nodes
       IN  /\ \E n \in 1..Len(written) :
                written[n].type = Unknown /\ written[n].group = 1
           /\ \E n \in 1..Len(written) : written[n].group = 0

\* the number of relation records of a type, "Unknown" for a record without
TallyOf(relations, t) ==
    Cardinality({j \in 1..Len(relations) :
                    Get(relations[j], "relationType", "Unknown") = t})

LinkValuesOk(ls, relations) ==
    /\ \A l \in 1..Len(ls) :
          /\ ls[l].value = TallyOf(relations, ls[l].type)
          /\ ls[l].value >= 1
    /\ \A l, m \in 1..Len(ls) : ls[l].type = ls[m].type => ls[l].value = ls[m].value

\* C6: each link's value is the number of records of the relations array with
\* the link's relationType; links of one type carry one value, never below 1.
C6_LinkValueIsTally ==
    /\ links # None => LinkValuesOk(links[1], InputContent["relations"])
    /\ pc = "returned" =>
          LinkValuesOk(FileAt(files, OutputPath(output_file))[1].data.links,
                       InputContent["relations"])

C6_Witness ==
    /\ pc = "returned"
    /\ LET written == FileAt(files, OutputPath(output_file))[1].data.links
       IN  /\ Len(written) = 2
           /\ written[1].type = written[2].type
           /\ written[1].value = 2

\* C7: extract_nodes returns one node per record with discriminator "entity",
\* in input order, and skips the others; extract_links does the same for the
\* records with discriminator "relation".
C7_OneOutputPerRecordInOrder ==
    /\ nodes # None =>
          LET E == InputContent["entities"]
              sel == SelectSeq(E, IsEntity)
          IN  /\ Len(nodes[1]) = Cardinality({i \in 1..Len(E) : IsEntity(E[i])})
              /\ Len(nodes[1]) = Len(sel)
              /\ \A i \in 1..Len(sel) :
                    /\ nodes[1][i].id = sel[i]["name"]
                    /\ nodes[1][i].type = Get(sel[i], "entityType", Unknown)
                    /\ nodes[1][i].observations = Get(sel[i], "observations", <<>>)
    /\ links # None =>
          LET R == InputContent["relations"]
              sel == SelectSeq(R, IsRelation)
          IN  /\ Len(links[1]) = Cardinality({j \in 1..Len(R) : IsRelation(R[j])})
              /\ Len(links[1]) = Len(sel)
              /\ \A j \in 1..Len(sel) :
                    /\ links[1][j].source = sel[j]["from"]
                    /\ links[1][j].target = sel[j]["to"]
                    /\ links[1][j].type = sel[j]["relationType"]

C7_Witness ==
    /\ nodes # None /\ links # None
    /\ Len(nodes[1]) = 2
    /\ nodes[1][1].id # nodes[1][2].id
    /\ Len(InputContent["relations"]) = 2
    /\ Len(links[1]) = 1

\* C8: a second run on the same input, with the same arguments, ends with the
\* same exit code and the same output document as the first.
C8_RepeatableOutput ==
    (run = 2 /\ Terminated) =>
        first = Some([exit_code |-> exit_code,
                      output |-> FileAt(files, OutputPath(output_file))])

\* nothing makes the run fail
NoFailure ==
    /\ HasEnvelope
    /\ BothKeys
    /\ ~BadRecord(InputContent)
    /\ ~(validate /\ DanglingRecords(InputContent) # {})
    /\ OutputPermitted

C10_WrittenLast ==
    /\ pc # "returned" => files = InitialFiles(FileAt(files, PathK))
    /\ pc = "returned" =>
          /\ HasEnvelope /\ BothKeys
          /\ groups # None /\ relation_types # None
          /\ nodes # None /\ links # None
          /\ validate => valid = Some(TRUE)
          /\ files = WriteFile(InitialFiles(FileAt(files, PathK)),
                               OutputPath(output_file), d3_graph[1])

C10_Witness ==
    /\ pc = "exited"
    /\ failed_at = "validate"
    /\ OutputPath(output_file) = PathD
    /\ FileAt(files, PathD) = Some(Utf8File(OldGraph))

====
